---- MODULE Spec2Model ----
(***************************************************************************)
(* Model of the MCP 24LC512 EEPROM driver (src/src/mcp24lc512.rs).         *)
(*                                                                         *)
(* The driver's four public operations are modelled against an             *)
(* environment made of the I2C transport with the EEPROM behind it, the    *)
(* write-protect pin and the clock.  Write operations are modelled step by *)
(* step (pin low, bus write, settle wait, pin high), because the claims    *)
(* are about the order of these steps; the read operations are a single    *)
(* step each.                                                              *)
(***************************************************************************)
EXTENDS Integers, Sequences, FiniteSets, TLC

\* ------------------------------------------------------------------------
\* Program constants
\* ------------------------------------------------------------------------
AVAILABLE_STORAGE == 64000
PAGESIZE == 128
DEFAULT_ADDRESS == 80

\* Width of the u16 address argument and of a u8 byte.
U16 == 65536
U8 == 256

\* ------------------------------------------------------------------------
\* Bounds of the model
\* ------------------------------------------------------------------------
\* Number of write operations (write_byte, write_data) a behaviour calls.
MaxWrites == 1

\* Offsets the operations are called with: both ends of the first page, the
\* last page of the storage, the capacity itself, and u16 values above it.
Offsets == {0, 126, 63999, 64000, 64001, 65535}
\* Lengths of the data slices: empty, within a page, a whole page, one, three
\* bytes more than a page.
Lengths == {0, 1, 2, 10, 128, 129, 131}
\* Lengths of the read buffers: empty, one byte, across the first page
\* boundary from offset 126, across it from offset 0.
ReadLengths == {0, 1, 10, 129}
\* Data patterns: the bytes of a written sequence are DataByte(seed, i).
Seeds == {0, 1}

DataByte(seed, i) == ((seed * 100) + i) % 251
MkData(seed, l) == [i \in 1..l |-> DataByte(seed, i)]
Zeros(l) == [i \in 1..l |-> 0]

VARIABLES
    pc,         \* position: idle, loop, low, bus, settle, high, done, aborted
    op,         \* operation in progress or last ended
    off,        \* the addr argument of the call
    data,       \* the data argument: bytes to write, or the read buffer
    addr,       \* write_data: the u16 address cursor
    wrptr,      \* write_data: the data cursor
    pagesize,   \* write_data: length of the current chunk
    writebuf,   \* the transaction buffer handed to i2c.write
    clos,       \* result of the closure run inside with_wp_low
    result,     \* value returned by the operation
    mem,        \* EEPROM cells written so far (the others are erased)
    wp,         \* level the write-protect line was last driven to
    trace,      \* events of the current call, in order
    memAtCall,  \* EEPROM contents when the current call began
    wpAtCall,   \* level of the write-protect line when the current call began
    lastWrite,  \* the last write operation, when it was a write_data returning Ok
    nwrites,    \* number of write operations called so far
    pinFailed   \* a set_low or set_high of the current call returned an error

vars == <<pc, op, off, data, addr, wrptr, pagesize, writebuf, clos, result,
          mem, wp, trace, memAtCall, wpAtCall, lastWrite, nwrites, pinFailed>>

\* ------------------------------------------------------------------------
\* Pure helpers of the driver
\* ------------------------------------------------------------------------

\* u16::to_be_bytes
ToBeBytes(a) == <<a \div U8, a % U8>>

\* Mutant: the end of the range is checked before its start.
Validate_EndFirst(o, l) ==
    IF o + l > AVAILABLE_STORAGE THEN "TooMuchData"
    ELSE IF o > AVAILABLE_STORAGE THEN "OutOfRange"
    ELSE "pass"

\* Mutant: the first bounds check written with >=.
Validate_Ge(o, l) ==
    IF o >= AVAILABLE_STORAGE THEN "OutOfRange"
    ELSE IF o + l > AVAILABLE_STORAGE THEN "TooMuchData"
    ELSE "pass"

\* Mutant: the end of the range is not checked.
Validate_NoEnd(o, l) ==
    IF o > AVAILABLE_STORAGE THEN "OutOfRange"
    ELSE "pass"

\* The bounds checks at the head of every operation.
Validate(o, l) ==
    IF o > AVAILABLE_STORAGE THEN "OutOfRange"
    ELSE IF o + l > AVAILABLE_STORAGE THEN "TooMuchData"
    ELSE "pass"

\* Mutant: only the first bounds check returns early.
Rejected_FirstOnly(v) == v = "OutOfRange"

\* An operation returns early when a bounds check fails.
Rejected(v) == v # "pass"

\* Mutant: the chunk is clipped to the page size, not to the end of the page.
ChunkLen_NoAlign(a, len, wr) ==
    IF (len - wr) < PAGESIZE THEN len - wr ELSE PAGESIZE

\* Mutant: one byte per transaction.
ChunkLen_Byte(a, len, wr) == IF (len - wr) < 1 THEN len - wr ELSE 1

\* Mutant: the room left in the page is computed one byte short.
ChunkLen_OffByOne(a, len, wr) ==
    LET maxsize == (PAGESIZE - 1) - (a % PAGESIZE)
    IN  IF (len - wr) < maxsize THEN len - wr ELSE maxsize

\* write_data: length of the chunk written at cursor a with wr bytes done.
ChunkLen(a, len, wr) ==
    LET maxsize == PAGESIZE - (a % PAGESIZE)
    IN  IF (len - wr) < maxsize THEN len - wr ELSE maxsize

\* Mutant: the chunk is copied from the start of the data, not from wrptr.
FillBuf_NoCursor(buf, a, d, wr, n) ==
    [i \in 1..Len(buf) |->
        IF i <= 2 THEN ToBeBytes(a)[i]
        ELSE IF i <= 2 + n THEN d[i - 2]
        ELSE buf[i]]

\* write_data: the two clone_from_slice calls that fill the buffer.
FillBuf(buf, a, d, wr, n) ==
    [i \in 1..Len(buf) |->
        IF i <= 2 THEN ToBeBytes(a)[i]
        ELSE IF i <= 2 + n THEN d[wr + (i - 2)]
        ELSE buf[i]]

\* Mutant: the cursor is advanced by a whole page.
NextAddr_Page(a, n) == (a + PAGESIZE) % U16

\* write_data: the address cursor after a chunk of n bytes (u16 arithmetic).
NextAddr(a, n) == (a + n) % U16

\* Mutant: the error of the closure is dropped.
Propagates_Never(r) == FALSE

\* The `?` after with_wp_low: an Err of the closure is returned at once.
Propagates(r) == r = "err"

\* Mutant: an Err of the closure leaves before the pin is driven high.
WpExitLevel_SkipOnErr(r) == IF r = "err" THEN "low" ELSE "high"

\* with_wp_low: level the pin is driven to when the closure has returned.
WpExitLevel(r) == "high"

\* Mutant: the polarity of the line is inverted on entry.
WpEntryLevel_High == "high"

\* with_wp_low: level the pin is driven to before the closure runs.
WpEntryLevel == "low"

\* Outcomes of OutputPin::set_low and OutputPin::set_high.
PinResults == {"ok", "err"}

\* Mutant: the result of the pin operation is returned with `?`.
PinPropagates_Err(r) == r = "err"

\* with_wp_low: `.ok()` turns the result of the pin operation into an Option
\* that is dropped, so no outcome of the pin makes the operation return.
PinPropagates(r) == FALSE

\* Mutant: the closure of write_data does not call ack_polling.
AfterWrite_NoSettle(name, ok) == "high"

\* Position after i2c.write in the closure: write_data goes on to
\* ack_polling when the write succeeded (`?` leaves the closure otherwise);
\* the closure of write_byte ends with the write.
AfterWrite(name, ok) == IF ok /\ name = "write_data" THEN "settle" ELSE "high"

\* Mutant: the loop condition written with <=.
MoreData_Le(wr, len) == wr <= len

\* write_data: the loop condition.
MoreData(wr, len) == wr < len

\* ------------------------------------------------------------------------
\* Environment: the EEPROM behind the I2C transport
\* ------------------------------------------------------------------------
\* Content of a cell; a cell that was never written reads 255 (erased).
Cell(m, a) == IF a \in DOMAIN m THEN m[a] ELSE 255

\* Address carried by the first two bytes of a transaction.
Header(buf) == (buf[1] * U8) + buf[2]

Payload(buf) == SubSeq(buf, 3, Len(buf))

\* Cell written by the i-th payload byte of a page write that starts at a:
\* the low address bits wrap inside the 128-byte page.
WrapAddr(a, i) ==
    ((a \div PAGESIZE) * PAGESIZE) + (((a % PAGESIZE) + (i - 1)) % PAGESIZE)

\* Page write: the device stores the payload, later bytes overwriting
\* earlier ones when the page pointer wraps.  Ignored while the
\* write-protect line is high.
DevWrite(m, buf, level) ==
    IF level # "low" \/ Len(buf) <= 2 THEN m
    ELSE LET a == Header(buf)
             p == Payload(buf)
             touched == {WrapAddr(a, i) : i \in 1..Len(p)}
             last(c) == CHOOSE i \in 1..Len(p) :
                          /\ WrapAddr(a, i) = c
                          /\ \A j \in 1..Len(p) : WrapAddr(a, j) = c => j <= i
         IN  [c \in (DOMAIN m) \cup touched |->
                 IF c \in touched THEN p[last(c)] ELSE m[c]]

\* Sequential read of n bytes from the address in abuf: the address counter
\* is not confined to a page.
DevRead(m, abuf, n) == [i \in 1..n |-> Cell(m, (Header(abuf) + (i - 1)) % U16)]

\* ------------------------------------------------------------------------
\* Events
\* ------------------------------------------------------------------------
\* An event of the trace: set_low, write, wait, set_high or write_read, with
\* the buffer sent, a number (bus address of a write, milliseconds of a
\* wait, length of the buffer of a write_read) and the outcome.
Ev(kind, buf, n, ok) == [ev |-> kind, buf |-> buf, n |-> n, ok |-> ok]

WriteOps == {"write_byte", "write_data"}
ReadOps == {"read_byte", "read_data"}

NoWrite == [off |-> 0, data |-> <<>>, result |-> "none"]

\* ------------------------------------------------------------------------
\* Initial state: Eeprom::new stores the pin and the clock, it drives nothing
\* ------------------------------------------------------------------------
Init ==
    /\ pc = "idle"
    /\ op = "none"
    /\ off = 0
    /\ data = <<>>
    /\ addr = 0
    /\ wrptr = 0
    /\ pagesize = 0
    /\ writebuf = <<>>
    /\ clos = "none"
    /\ result = "none"
    /\ mem = <<>>
    /\ wp \in {"high", "low"}
    /\ trace = <<>>
    /\ memAtCall = <<>>
    /\ wpAtCall = wp
    /\ lastWrite = NoWrite
    /\ nwrites = 0
    /\ pinFailed = FALSE

CanCall == pc \in {"idle", "done"}

\* What every call does to the bookkeeping of the model.
Begin(o, name) ==
    /\ CanCall
    /\ op' = name
    /\ off' = o
    /\ memAtCall' = mem
    /\ wpAtCall' = wp
    /\ pinFailed' = FALSE
    /\ lastWrite' = IF op = "write_data" /\ result = "Ok"
                    THEN [off |-> off, data |-> data, result |-> result]
                    ELSE IF op \in WriteOps THEN NoWrite
                    ELSE lastWrite

\* The locals of an operation end with it.
Return ==
    /\ addr' = 0
    /\ wrptr' = 0
    /\ pagesize' = 0
    /\ writebuf' = <<>>
    /\ clos' = "none"

\* Mutant: a read is split at the first page boundary, like a write.
ReadPlan_Split(o, n) ==
    LET first == PAGESIZE - (o % PAGESIZE)
    IN  IF n > first THEN << <<o, first>>, <<o + first, n - first>> >>
        ELSE << <<o, n>> >>

\* Mutant: a read of no bytes returns without a bus transaction.
ReadPlan_SkipEmpty(o, n) == IF n = 0 THEN <<>> ELSE << <<o, n>> >>

\* The bus transactions a read performs: a single write_read of the address
\* followed by the whole buffer, whatever the span.
ReadPlan(o, n) == << <<o, n>> >>

\* ------------------------------------------------------------------------
\* write_byte
\* ------------------------------------------------------------------------
Call_write_byte(o, b) ==
    /\ nwrites < MaxWrites
    /\ Begin(o, "write_byte")
    /\ data' = <<b>>
    /\ nwrites' = nwrites + 1
    /\ trace' = <<>>
    /\ clos' = "none"
    /\ UNCHANGED <<addr, wrptr, mem, wp>>
    /\ IF Rejected(Validate(o, 1))
       THEN /\ result' = Validate(o, 1)
            /\ pc' = "done"
            /\ UNCHANGED <<pagesize, writebuf>>
       ELSE /\ result' = "none"
            /\ pagesize' = 1
            /\ writebuf' = <<ToBeBytes(o)[1], ToBeBytes(o)[2], b>>
            /\ pc' = "low"

\* ------------------------------------------------------------------------
\* write_data
\* ------------------------------------------------------------------------
Call_write_data(o, d) ==
    /\ nwrites < MaxWrites
    /\ Begin(o, "write_data")
    /\ data' = d
    /\ nwrites' = nwrites + 1
    /\ trace' = <<>>
    /\ clos' = "none"
    /\ UNCHANGED <<mem, wp, pagesize>>
    /\ IF Rejected(Validate(o, Len(d)))
       THEN /\ result' = Validate(o, Len(d))
            /\ pc' = "done"
            /\ UNCHANGED <<addr, wrptr, writebuf>>
       ELSE /\ result' = "none"
            /\ addr' = o
            /\ writebuf' = Zeros(PAGESIZE + 2)
            /\ wrptr' = 0
            /\ pc' = "loop"

\* Loop head with data left: the chunk is sized and copied into the buffer.
Chunk ==
    /\ pc = "loop"
    /\ MoreData(wrptr, Len(data))
    /\ pagesize' = ChunkLen(addr, Len(data), wrptr)
    /\ writebuf' = FillBuf(writebuf, addr, data, wrptr,
                           ChunkLen(addr, Len(data), wrptr))
    /\ pc' = "low"
    /\ UNCHANGED <<op, off, data, addr, wrptr, clos, result, mem, wp, trace,
                   memAtCall, wpAtCall, lastWrite, nwrites, pinFailed>>

\* Loop head with no data left: write_data returns Ok.
Finish ==
    /\ pc = "loop"
    /\ ~MoreData(wrptr, Len(data))
    /\ result' = "Ok"
    /\ pc' = "done"
    /\ Return
    /\ UNCHANGED <<op, off, data, mem, wp, trace, memAtCall, wpAtCall,
                   lastWrite, nwrites, pinFailed>>

\* ------------------------------------------------------------------------
\* with_wp_low and the closures the write operations run inside it
\* ------------------------------------------------------------------------
\* The pin operation succeeds or fails; wp is the level it was asked for.
SetLow ==
    /\ pc = "low"
    /\ \E r \in PinResults :
        /\ pinFailed' = (pinFailed \/ r = "err")
        /\ wp' = WpEntryLevel
        /\ trace' = Append(trace, Ev("set_low", <<>>, 0, TRUE))
        /\ IF PinPropagates(r)
           THEN /\ result' = "Pin"
                /\ pc' = "done"
                /\ Return
           ELSE /\ pc' = "bus"
                /\ UNCHANGED <<addr, wrptr, pagesize, writebuf, clos, result>>
    /\ UNCHANGED <<op, off, data, mem, memAtCall, wpAtCall, lastWrite, nwrites>>

\* The slice of the buffer a write operation hands to i2c.write.
TxBuf == IF op = "write_data" THEN SubSeq(writebuf, 1, pagesize + 2) ELSE writebuf

\* i2c.write: the transport succeeds or fails; a failed transaction stores
\* nothing in the device.
BusWrite ==
    /\ pc = "bus"
    /\ \E ok \in BOOLEAN :
        /\ trace' = Append(trace, Ev("write", TxBuf, DEFAULT_ADDRESS, ok))
        /\ mem' = IF ok THEN DevWrite(mem, TxBuf, wp) ELSE mem
        /\ clos' = IF ok THEN "ok" ELSE "err"
        /\ pc' = AfterWrite(op, ok)
    /\ UNCHANGED <<op, off, data, addr, wrptr, pagesize, writebuf, result, wp,
                   memAtCall, wpAtCall, lastWrite, nwrites, pinFailed>>

SETTLE_MS == 5

\* ack_polling: a 5 ms timer is started and waited for; unwrap aborts the
\* program when the clock fails to start the timer or to wait on it.
AckPolling ==
    /\ pc = "settle"
    /\ \E t \in {"ok", "start_err", "wait_err"} :
        /\ trace' = IF t = "start_err" THEN trace
                    ELSE Append(trace, Ev("wait", <<>>, SETTLE_MS, t = "ok"))
        /\ pc' = IF t = "ok" THEN "high" ELSE "aborted"
    /\ UNCHANGED <<op, off, data, addr, wrptr, pagesize, writebuf, clos,
                   result, mem, wp, memAtCall, wpAtCall, lastWrite, nwrites,
                   pinFailed>>

\* The closure has returned: the pin is driven, then `?` either returns the
\* error or lets the operation go on.
SetHigh ==
    /\ pc = "high"
    /\ \E r \in PinResults :
        /\ pinFailed' = (pinFailed \/ r = "err")
        /\ wp' = WpExitLevel(clos)
        /\ trace' = Append(trace, Ev("set_high", <<>>, 0, TRUE))
        /\ IF PinPropagates(r)
           THEN /\ result' = "Pin"
                /\ pc' = "done"
                /\ Return
           ELSE IF Propagates(clos)
           THEN /\ result' = "I2c"
                /\ pc' = "done"
                /\ Return
           ELSE IF op = "write_byte"
           THEN /\ result' = "Ok"
                /\ pc' = "done"
                /\ Return
           ELSE /\ addr' = NextAddr(addr, pagesize)
                /\ wrptr' = wrptr + pagesize
                /\ pc' = "loop"
                /\ UNCHANGED <<result, pagesize, writebuf, clos>>
    /\ UNCHANGED <<op, off, data, mem, memAtCall, wpAtCall, lastWrite, nwrites>>

\* ------------------------------------------------------------------------
\* read_byte and read_data
\* ------------------------------------------------------------------------
RECURSIVE ReadAll(_, _)
ReadAll(m, plan) ==
    IF plan = <<>> THEN <<>>
    ELSE DevRead(m, ToBeBytes(plan[1][1]), plan[1][2]) \o ReadAll(m, Tail(plan))

ReadEvents(plan, ok) ==
    [k \in 1..Len(plan) |-> Ev("write_read", ToBeBytes(plan[k][1]), plan[k][2], ok)]

Call_read(o, name, n) ==
    /\ Begin(o, name)
    /\ clos' = "none"
    /\ UNCHANGED <<addr, wrptr, pagesize, writebuf, mem, wp, nwrites>>
    /\ IF Rejected(Validate(o, n))
       THEN /\ result' = Validate(o, n)
            /\ data' = Zeros(n)
            /\ trace' = <<>>
            /\ pc' = "done"
       ELSE \E ok \in BOOLEAN :
            /\ trace' = ReadEvents(ReadPlan(o, n), ok)
            /\ data' = IF ok THEN ReadAll(mem, ReadPlan(o, n)) ELSE Zeros(n)
            /\ result' = IF ok THEN "Ok" ELSE "I2c"
            /\ pc' = "done"

Call_read_byte(o) == Call_read(o, "read_byte", 1)

Call_read_data(o, n) == Call_read(o, "read_data", n)

Next ==
    \/ \E o \in Offsets, s \in Seeds : Call_write_byte(o, DataByte(s, 1))
    \/ \E o \in Offsets, l \in Lengths, s \in Seeds : Call_write_data(o, MkData(s, l))
    \/ Chunk
    \/ Finish
    \/ SetLow
    \/ BusWrite
    \/ AckPolling
    \/ SetHigh
    \/ \E o \in Offsets : Call_read_byte(o)
    \/ \E o \in Offsets, l \in ReadLengths : Call_read_data(o, l)

Spec == Init /\ [][Next]_vars

\* ------------------------------------------------------------------------
\* Reading the event trace of the current call
\* ------------------------------------------------------------------------
IsBusWrite(e) == e.ev = "write"
IsBusEvent(e) == e.ev \in {"write", "write_read"}

\* The i2c.write transactions of the current call, in the order issued.
BusWrites == SelectSeq(trace, IsBusWrite)
BusEvents == SelectSeq(trace, IsBusEvent)

\* Payload length of the k-th write transaction.
PayLen(ws, k) == Len(ws[k].buf) - 2

RECURSIVE PayloadSum(_, _)
\* Total payload length of the first k write transactions.
PayloadSum(ws, k) == IF k = 0 THEN 0 ELSE PayloadSum(ws, k - 1) + PayLen(ws, k)

RECURSIVE PayloadCat(_, _)
\* The payloads of the first k write transactions, concatenated.
PayloadCat(ws, k) ==
    IF k = 0 THEN <<>>
    ELSE PayloadCat(ws, k - 1) \o SubSeq(ws[k].buf, 3, Len(ws[k].buf))

Min(a, b) == IF a < b THEN a ELSE b

Returned == pc = "done" /\ op # "none"

\* ------------------------------------------------------------------------
\* C1 - bounds validation
\* ------------------------------------------------------------------------
\* C1: for every operation, offset o and length l (the length of the data
\* argument; 1 for the byte operations): o > 64000 gives OutOfRange; else
\* o + l > 64000 gives TooMuchData; else the call is not rejected and, when
\* it has returned, it has reached the bus transport (a write_data of no
\* bytes has nothing to send).
C1_Validation ==
    op # "none" =>
        /\ off > 64000 => result = "OutOfRange"
        /\ (off <= 64000 /\ off + Len(data) > 64000) => result = "TooMuchData"
        /\ (off <= 64000 /\ off + Len(data) <= 64000) =>
              /\ result \in {"none", "Ok", "I2c"}
              /\ (pc = "done" /\ (Len(data) > 0 \/ op \in ReadOps)) => BusEvents # <<>>

\* Offset 63999 with one byte has passed validation and was written.
C1_Witness ==
    /\ Returned
    /\ op = "write_data"
    /\ off = 63999
    /\ Len(data) = 1
    /\ result = "Ok"
    /\ Len(BusWrites) = 1

\* ------------------------------------------------------------------------
\* C2 - offset equal to the capacity
\* ------------------------------------------------------------------------
\* C2 as stated: an operation called with offset exactly 64000 and length 1
\* fails with OutOfRange.
C2_OffsetAtCapacity ==
    (Returned /\ off = 64000 /\ Len(data) = 1) => result = "OutOfRange"

\* C2 as amended: an operation called with offset exactly 64000 and length 1
\* fails with TooMuchData, before any bus activity: 64000 does not exceed
\* the capacity, the end of the range does.
C2_AtCapacityTooMuchData ==
    (Returned /\ off = 64000 /\ Len(data) = 1) =>
        /\ result = "TooMuchData"
        /\ trace = <<>>

\* write_byte at offset 64000 has returned TooMuchData.
C2_Witness ==
    /\ Returned
    /\ op = "write_byte"
    /\ off = 64000
    /\ result = "TooMuchData"

\* ------------------------------------------------------------------------
\* C3 - no write transaction crosses a page boundary
\* ------------------------------------------------------------------------
\* C3: every physical write transaction of a write operation that starts at
\* offset s carries at most 128 - (s mod 128) payload bytes.
C3_PageBound ==
    \A i \in 1..Len(trace) :
        trace[i].ev = "write" =>
            /\ Len(trace[i].buf) >= 2
            /\ Len(trace[i].buf) - 2
                 <= 128 - (((trace[i].buf[1] * 256) + trace[i].buf[2]) % 128)

\* A transaction that fills the page up to its end with more data left over:
\* ten bytes at offset 126, of which the first transaction carries two.
C3_Witness ==
    /\ op = "write_data"
    /\ off = 126
    /\ Len(data) = 10
    /\ Len(BusWrites) >= 1
    /\ PayLen(BusWrites, 1) = 2

\* ------------------------------------------------------------------------
\* C4 - the transactions carry the data, each at its address
\* ------------------------------------------------------------------------
\* C4: when write_data(o, data) returns Ok, the payloads of its write
\* transactions, concatenated in the order issued, equal data, and the
\* big-endian header of the i-th transaction is o plus the payload length of
\* the transactions before it.
C4_PayloadsAreData ==
    (Returned /\ op = "write_data" /\ result = "Ok") =>
        LET ws == BusWrites
        IN  /\ PayloadCat(ws, Len(ws)) = data
            /\ \A i \in 1..Len(ws) :
                  /\ ws[i].ok
                  /\ ws[i].buf[1] = (off + PayloadSum(ws, i - 1)) \div 256
                  /\ ws[i].buf[2] = (off + PayloadSum(ws, i - 1)) % 256

\* A write of 131 bytes at offset 126 has returned Ok after three
\* transactions.
C4_Witness ==
    /\ Returned
    /\ op = "write_data"
    /\ result = "Ok"
    /\ off = 126
    /\ Len(data) = 131
    /\ Len(BusWrites) = 3

C6_RoundTrip ==
    /\ (/\ Returned
        /\ op = "read_data"
        /\ result = "Ok"
        /\ lastWrite.result = "Ok"
        /\ off = lastWrite.off
        /\ Len(data) = Len(lastWrite.data)) => data = lastWrite.data
    /\ (Returned /\ op = "write_data" /\ result = "Ok") =>
          \A a \in (DOMAIN mem) \cup (DOMAIN memAtCall) :
              (a < off \/ a >= off + Len(data)) => Cell(mem, a) = Cell(memAtCall, a)

\* 129 bytes written at offset 126 (two pages) have been read back.
C6_Witness ==
    /\ Returned
    /\ op = "read_data"
    /\ result = "Ok"
    /\ lastWrite.result = "Ok"
    /\ off = 126
    /\ lastWrite.off = 126
    /\ Len(data) = 129
    /\ Len(lastWrite.data) = 129
    /\ data = lastWrite.data

\* ------------------------------------------------------------------------
\* C7 - a transport failure in the middle of write_data
\* ------------------------------------------------------------------------
\* C7: a failed bus write is the last bus transaction of the call (only the
\* drive of the pin follows it, no wait, no retry, no later chunk); the
\* write_data call then returns the I2c error; and the device holds the
\* data of the chunks written before the failing one, at their offsets,
\* with every other cell as it was when the call began.
C7_FailureStops ==
    /\ \A i \in 1..Len(trace) :
          (trace[i].ev = "write" /\ ~trace[i].ok) =>
              /\ i >= Len(trace) - 1
              /\ i = Len(trace) - 1 => trace[i + 1].ev = "set_high"
              /\ (Returned /\ op = "write_data") => result = "I2c"
    /\ (Returned /\ op = "write_data" /\ result = "I2c") =>
          LET ws == BusWrites
              k == Len(ws)
              n == PayloadSum(ws, k - 1)
          IN  /\ k >= 1
              /\ ~ws[k].ok
              /\ \A j \in 1..(k - 1) : ws[j].ok
              /\ PayloadCat(ws, k - 1) = SubSeq(data, 1, n)
              /\ \A a \in (DOMAIN mem) \cup (DOMAIN memAtCall) \cup (off..(off + n - 1)) :
                    Cell(mem, a) = IF a >= off /\ a < off + n
                                    THEN data[(a - off) + 1]
                                    ELSE Cell(memAtCall, a)

\* The third bus write of a call has failed: two chunks stay written.
C7_Witness ==
    /\ Returned
    /\ op = "write_data"
    /\ result = "I2c"
    /\ Len(BusWrites) = 3
    /\ PayloadSum(BusWrites, 2) = 130
    /\ mem # memAtCall

\* ------------------------------------------------------------------------
\* C8 - a rejected call touches nothing
\* ------------------------------------------------------------------------
\* C8: a call whose offset and length fail the bounds checks has returned
\* without any event (no bus transaction, no pin drive, no timer), with
\* the device contents and the pin level as they were before the call.
C8_RejectedIsInert ==
    (op # "none" /\ (off > 64000 \/ off + Len(data) > 64000)) =>
        /\ pc = "done"
        /\ result \in {"OutOfRange", "TooMuchData"}
        /\ trace = <<>>
        /\ mem = memAtCall
        /\ wp = wpAtCall

\* write_data of two bytes at offset 63999 has been rejected.
C8_Witness ==
    /\ Returned
    /\ op = "write_data"
    /\ off = 63999
    /\ Len(data) = 2
    /\ result = "TooMuchData"
    /\ trace = <<>>

\* ------------------------------------------------------------------------
\* C9 - reads are one transaction
\* ------------------------------------------------------------------------
\* C9: a read_byte or read_data that passed validation has performed
\* exactly one write_read transaction, of the big-endian offset and the
\* whole buffer, and nothing else: no pin drive, no settle wait, the
\* write-protect line at the level it had.
C9_ReadIsOneTransaction ==
    (Returned /\ op \in ReadOps /\ result \in {"Ok", "I2c"}) =>
        /\ Len(trace) = 1
        /\ trace[1].ev = "write_read"
        /\ trace[1].buf = <<off \div 256, off % 256>>
        /\ trace[1].n = Len(data)
        /\ wp = wpAtCall
        /\ mem = memAtCall
        /\ result = "Ok" =>
              \A i \in 1..Len(data) : data[i] = Cell(mem, off + (i - 1))

\* A read of 129 bytes at offset 126, across a page boundary, has returned
\* data written there before.
C9_Witness ==
    /\ Returned
    /\ op = "read_data"
    /\ result = "Ok"
    /\ off = 126
    /\ Len(data) = 129
    /\ Len(trace) = 1
    /\ 128 \in DOMAIN mem
    /\ data[3] = mem[128]

\* ------------------------------------------------------------------------
\* C10 - greedy chunking
\* ------------------------------------------------------------------------
\* Number of 128-byte pages the range [o, o + l) touches.
PagesTouched(o, l) == IF l = 0 THEN 0 ELSE (((o + l) - 1) \div 128) - (o \div 128) + 1

PayLens(ws) == [k \in 1..Len(ws) |-> PayLen(ws, k)]

\* C10: the k-th write transaction of write_data carries exactly
\* min(bytes left, 128 - (current offset mod 128)) bytes; a call that
\* returned Ok has issued as many transactions as [o, o + l) touches pages;
\* 128 bytes at 0 go in one transaction, 129 bytes at 0 in two of 128 and 1,
\* 10 bytes at 126 in two of 2 and 8.
C10_GreedyChunks ==
    op = "write_data" =>
        LET ws == BusWrites
        IN  /\ \A k \in 1..Len(ws) :
                  PayLen(ws, k) =
                      Min(Len(data) - PayloadSum(ws, k - 1),
                          128 - ((off + PayloadSum(ws, k - 1)) % 128))
            /\ (Returned /\ result = "Ok") =>
                  /\ Len(ws) = PagesTouched(off, Len(data))
                  /\ (off = 0 /\ Len(data) = 128) => PayLens(ws) = <<128>>
                  /\ (off = 0 /\ Len(data) = 129) => PayLens(ws) = <<128, 1>>
                  /\ (off = 126 /\ Len(data) = 10) => PayLens(ws) = <<2, 8>>

\* Ten bytes at offset 126 have been written in two transactions.
C10_Witness ==
    /\ Returned
    /\ op = "write_data"
    /\ result = "Ok"
    /\ off = 126
    /\ Len(data) = 10
    /\ PayLens(BusWrites) = <<2, 8>>

\* ------------------------------------------------------------------------
\* C11 - settle wait after every successful bus write
\* ------------------------------------------------------------------------
\* C11 as stated: in a write operation that has returned, every bus write
\* that succeeded is directly followed by a settle wait of 5 ms that ran to
\* its end.
C11_SettleAfterEveryWrite ==
    (Returned /\ op \in WriteOps) =>
        \A i \in 1..Len(trace) :
            (trace[i].ev = "write" /\ trace[i].ok) =>
                /\ i < Len(trace)
                /\ trace[i + 1].ev = "wait"
                /\ trace[i + 1].n = 5
                /\ trace[i + 1].ok

\* ------------------------------------------------------------------------
\* C12 - chunks in sequence
\* ------------------------------------------------------------------------
\* Address carried by the k-th write transaction.
HeaderOf(ws, k) == (ws[k].buf[1] * 256) + ws[k].buf[2]

\* C12: the events of a write_data call come in groups of four, set_low,
\* bus write, settle wait, set_high, in this order; a bus write other than
\* the first comes right after the group of a bus write that succeeded and
\* whose settle wait ran to its end, and starts at a higher offset; a call
\* that returned Ok has a trace made of whole groups only, one per chunk.
C12_ChunksInSequence ==
    op = "write_data" =>
        /\ \A i \in 1..Len(trace) :
              trace[i].ev = "write" =>
                  /\ i % 4 = 2
                  /\ trace[i - 1].ev = "set_low"
                  /\ i > 4 =>
                        /\ trace[i - 4].ev = "write"
                        /\ trace[i - 4].ok
                        /\ trace[i - 3].ev = "wait"
                        /\ trace[i - 3].ok
                        /\ trace[i - 2].ev = "set_high"
                        /\ ((trace[i - 4].buf[1] * 256) + trace[i - 4].buf[2])
                             < ((trace[i].buf[1] * 256) + trace[i].buf[2])
        /\ (Returned /\ result = "Ok") =>
              /\ Len(trace) = 4 * Len(BusWrites)
              /\ \A i \in 1..Len(trace) :
                    trace[i].ev = CASE i % 4 = 1 -> "set_low"
                                    [] i % 4 = 2 -> "write"
                                    [] i % 4 = 3 -> "wait"
                                    [] OTHER -> "set_high"
              /\ \A i \in 1..Len(trace) : trace[i].ok

\* A write of three chunks has returned Ok: twelve events.
C12_Witness ==
    /\ Returned
    /\ op = "write_data"
    /\ result = "Ok"
    /\ Len(BusWrites) = 3
    /\ Len(trace) = 12
    /\ HeaderOf(BusWrites, 1) < HeaderOf(BusWrites, 2)
    /\ HeaderOf(BusWrites, 2) < HeaderOf(BusWrites, 3)

C14_RestoredOnEveryExit ==
    (op \in WriteOps /\ pc \in {"done", "aborted"} /\ trace # <<>>) => wp = "high"

\* ------------------------------------------------------------------------
\* C15 - the line while no write is in progress
\* ------------------------------------------------------------------------
\* C15 as stated: whenever the driver is between operations, from its
\* construction on, the write-protect line is high.
C15_HighWhenIdle ==
    pc \in {"idle", "done"} => wp = "high"

\* ------------------------------------------------------------------------
\* C16 - read of no bytes
\* ------------------------------------------------------------------------
\* C16: a read_data with an empty buffer at an offset the bounds checks
\* accept (up to 64000) has performed exactly one write_read, of the
\* big-endian offset and the empty buffer, and returns Ok when that
\* transaction succeeded (the transport error otherwise).
C16_EmptyRead ==
    (Returned /\ op = "read_data" /\ Len(data) = 0 /\ off <= 64000) =>
        /\ Len(trace) = 1
        /\ trace[1].ev = "write_read"
        /\ trace[1].buf = <<off \div 256, off % 256>>
        /\ trace[1].n = 0
        /\ result = IF trace[1].ok THEN "Ok" ELSE "I2c"
        /\ mem = memAtCall

\* An empty read at the last offset of the storage has returned Ok.
C16_Witness ==
    /\ Returned
    /\ op = "read_data"
    /\ Len(data) = 0
    /\ off = 63999
    /\ result = "Ok"
    /\ Len(trace) = 1
    /\ trace[1].ok

\* ------------------------------------------------------------------------
\* C17 - failures of the pin are ignored
\* ------------------------------------------------------------------------
\* All bus writes of the current call succeeded.
AllWritesOk == \A k \in 1..Len(BusWrites) : BusWrites[k].ok

\* C17: what a write operation does is fixed by its arguments and by the
\* outcomes of the transport and of the timer, whether or not a set_low or
\* set_high failed: a set_low is followed by the bus write of the chunk, a
\* set_high after a completed chunk by the next chunk or by the return, the
\* k-th bus write carries the k-th chunk of the data at its offset, and the
\* result is Ok when every bus write succeeded and the I2c error
\* otherwise; no result comes from the pin.
C17_PinFailuresIgnored ==
    op \in WriteOps =>
        /\ result \in {"none", "Ok", "I2c", "OutOfRange", "TooMuchData"}
        /\ \A i \in 1..Len(trace) :
              /\ trace[i].ev = "set_low" =>
                    /\ i < Len(trace) => trace[i + 1].ev = "write"
                    /\ i = Len(trace) => pc = "bus"
              /\ trace[i].ev = "set_high" =>
                    /\ i < Len(trace) => (trace[i + 1].ev = "set_low" /\ trace[i - 1].ok)
                    /\ i = Len(trace) => pc \in {"loop", "low", "done"}
        /\ \A k \in 1..Len(BusWrites) :
              LET sent == PayloadSum(BusWrites, k - 1)
                  n == PayLen(BusWrites, k)
              IN  BusWrites[k].buf =
                      <<(off + sent) \div 256, (off + sent) % 256>>
                          \o SubSeq(data, sent + 1, sent + n)
        /\ (Returned /\ trace # <<>>) =>
              /\ result = IF AllWritesOk THEN "Ok" ELSE "I2c"
              /\ result = "Ok" => PayloadSum(BusWrites, Len(BusWrites)) = Len(data)

\* A write of two chunks has returned Ok although a pin operation failed.
C17_Witness ==
    /\ Returned
    /\ op = "write_data"
    /\ pinFailed
    /\ result = "Ok"
    /\ Len(BusWrites) = 2
    /\ mem # memAtCall

\* ------------------------------------------------------------------------
\* C18 - write_data terminates
\* ------------------------------------------------------------------------
\* The steps of a write operation under way.  Each is a call that returns
\* (the bus transport, the timer, the pin) or plain computation, so a step
\* that can be taken is taken.
Step == Chunk \/ Finish \/ SetLow \/ BusWrite \/ AckPolling \/ SetHigh

FairSpec == Spec /\ WF_vars(Step)

\* Upper bound on the loop iterations: ceil((o mod 128 + l) / 128).
MaxIterations(o, l) == (((o % 128) + l) + 127) \div 128

\* C18: in write_data every chunk has at least one byte and ends within the
\* data, the data cursor never exceeds the data length and strictly grows
\* with every iteration, the number of iterations is at most
\* ceil((o mod 128 + l) / 128), and a call that entered the loop ends, by
\* return or by abort of the settle wait.
C18_Terminates ==
    /\ [](op = "write_data" =>
            /\ wrptr <= Len(data)
            /\ pc \in {"low", "bus", "settle", "high"} =>
                  (pagesize >= 1 /\ wrptr + pagesize <= Len(data))
            /\ Len(BusWrites) <= MaxIterations(off, Len(data)))
    /\ [][(op = "write_data" /\ pc = "high" /\ pc' = "loop") => wrptr' > wrptr]_vars
    /\ (op = "write_data" /\ pc = "loop") ~> (pc \in {"done", "aborted"})

\* The loop has ended after three iterations, the most that 131 bytes at
\* offset 126 allow.
C18_Witness ==
    /\ Returned
    /\ op = "write_data"
    /\ result = "Ok"
    /\ off = 126
    /\ Len(data) = 131
    /\ Len(BusWrites) = 3
    /\ MaxIterations(off, Len(data)) = 3

\* ------------------------------------------------------------------------
\* C19 - the address cursor stays within the device
\* ------------------------------------------------------------------------
\* C19: in write_data the address cursor is the offset plus the bytes done,
\* unwrapped by the 16-bit arithmetic: at every iteration the cursor plus
\* the chunk length is at most 64000, at the loop head after the last chunk
\* the cursor is o + l, and the header of every bus write is below 64000.
C19_CursorInRange ==
    op = "write_data" =>
        /\ pc \in {"loop", "low", "bus", "settle", "high"} =>
              /\ addr = off + wrptr
              /\ addr <= AVAILABLE_STORAGE
        /\ pc \in {"low", "bus", "settle", "high"} =>
              /\ addr + pagesize <= AVAILABLE_STORAGE
              /\ addr + pagesize < U16
        /\ (pc = "loop" /\ ~MoreData(wrptr, Len(data))) =>
              addr = off + Len(data)
        /\ \A k \in 1..Len(BusWrites) :
              /\ HeaderOf(BusWrites, k) >= 0
              /\ HeaderOf(BusWrites, k) < AVAILABLE_STORAGE

\* The last byte of the device has been written and the cursor stands at
\* 64000, at the loop head, with no data left.
C19_Witness ==
    /\ op = "write_data"
    /\ pc = "loop"
    /\ off = 63999
    /\ Len(data) = 1
    /\ addr = AVAILABLE_STORAGE
    /\ Len(BusWrites) = 1
    /\ HeaderOf(BusWrites, 1) = 63999

\* ------------------------------------------------------------------------
\* C20 - write_data with no data
\* ------------------------------------------------------------------------
\* C20: write_data with empty data at any offset up to and including 64000
\* returns Ok without a bus transaction, without driving the write-protect
\* line and without a settle wait: the call has no event at all, and the
\* line and the device memory are as they were when it was made.
C20_EmptyWrite ==
    (op = "write_data" /\ Len(data) = 0 /\ off <= AVAILABLE_STORAGE) =>
        /\ pc \in {"loop", "done"}
        /\ trace = <<>>
        /\ wp = wpAtCall
        /\ mem = memAtCall
        /\ Returned => result = "Ok"

\* An empty write at offset 64000 has returned Ok.
C20_Witness ==
    /\ Returned
    /\ op = "write_data"
    /\ Len(data) = 0
    /\ off = AVAILABLE_STORAGE
    /\ result = "Ok"
    /\ trace = <<>>

====
